---- MODULE Spec2Model ----
(***************************************************************************)
(* Verification model of the user API: the in-memory vector store          *)
(* (api/vector_search.py), the CSV cache (api/csv_reader.py) and the       *)
(* GET /users/search and GET /users endpoints (api/main.py).               *)
(*                                                                         *)
(* Specifications:                                                         *)
(*   Spec         the vector store, one call at a time                     *)
(*   SpecApi      the served application and GET /users/search             *)
(*   SpecUsers    GET /users                                               *)
(*   SpecCsv      load_users and clear_cache                               *)
(*   SpecThreads  the vector store used by two threads, one statement at   *)
(*                a time                                                   *)
(*                                                                         *)
(* Python values are modelled as follows.                                  *)
(*   str            a TLA+ string; "" is the empty (falsy) string          *)
(*   Optional[x]    None is << >>, a present value x is <<x>>              *)
(*   dict           an insertion-ordered sequence of [key, value] items    *)
(*   float score    an integer count of 1/Scale units (fixed point)        *)
(*   datetime.date  a triple <<year, month, day>>                          *)
(***************************************************************************)
EXTENDS Integers, Sequences, FiniteSets, TLC

VARIABLES
    _model,         \* vector_search._model: None or the loaded model's name
    _embeddings,    \* vector_search._embeddings: dict user_id -> embedding
    _professions,   \* vector_search._professions: dict user_id -> profession
    _cached_data,   \* csv_reader._cached_data: None or the parsed user list
    csv_file,       \* the rows of api/data/users.csv on disk
    call,           \* the most recent call and its arguments
    ret,            \* what that call returned or raised (an endpoint: its response)
    last_mutator,   \* history: the most recent call that rewrote the store
    prior_ids,      \* history: the user_ids the store held when that call began
    threads         \* the calls in progress when two threads use the store

vars == <<_model, _embeddings, _professions, _cached_data, csv_file,
          call, ret, last_mutator, prior_ids, threads>>

-----------------------------------------------------------------------------
(* Bounds of the model.                                                    *)

MaxRecords == 2     \* longest csv_data sequence passed to initialize_vector_db
MaxLimit == 3       \* largest limit passed to search_similar_professions
MaxUsers == 3       \* most rows in users.csv
MaxPageLimit == 2   \* largest limit query parameter sent to GET /users/search

-----------------------------------------------------------------------------
(* Python helpers.                                                         *)

None == << >>
Some(x) == <<x>>

Min(a, b) == IF a <= b THEN a ELSE b

SeqsUpTo(S, n) == UNION {[1..k -> S] : k \in 0..n}

\* s[:n] for n >= 0
Slice(s, n) == SubSeq(s, 1, Min(n, Len(s)))

\* dict: insertion-ordered items; assigning an existing key keeps its place.
DictHas(d, k) == \E i \in DOMAIN d : d[i].key = k

DictGet(d, k) == d[CHOOSE i \in DOMAIN d : d[i].key = k].value

\* Variant: an existing key keeps its first value.
DictSetAlt(d, k, v) ==
    IF DictHas(d, k) THEN d ELSE Append(d, [key |-> k, value |-> v])

DictSet(d, k, v) ==
    IF DictHas(d, k)
    THEN [i \in DOMAIN d |-> IF d[i].key = k THEN [key |-> k, value |-> v] ELSE d[i]]
    ELSE Append(d, [key |-> k, value |-> v])

DictKeys(d) == [i \in DOMAIN d |-> d[i].key]

-----------------------------------------------------------------------------
(* The embedding model and the distance primitive.                         *)

ModelName == "all-MiniLM-L6-v2"

\* Fixed-point unit of a float score: 1.0 is Scale.
Scale == 1000000

\* SentenceTransformer.encode: an opaque, deterministic text -> vector map.
\* The table stands for the pretrained model: same text, same vector.
EncodeTable ==
    [t \in {"Doctor", "Physician", "Software Engineer", "Software Developer",
            "doctor", "engineer", "programmer"} |->
        CASE t = "Doctor" -> <<3, 4>>
          [] t = "Physician" -> <<5, 12>>
          [] t = "Software Engineer" -> <<-4, 3>>
          [] t = "Software Developer" -> <<-3, 4>>
          [] t = "doctor" -> <<6, 8>>
          [] t = "engineer" -> <<0, 5>>
          [] t = "programmer" -> <<-8, 6>>]

encode(texts) == [i \in DOMAIN texts |-> EncodeTable[texts[i]]]

Dot(u, v) == u[1] * v[1] + u[2] * v[2]

ISqrt(n) == CHOOSE r \in 0..n : r * r <= n /\ (r + 1) * (r + 1) > n

Norm(u) == ISqrt(Dot(u, u))

\* scipy.spatial.distance.cosine: 1 - u.v / (|u| |v|), in [0, 2].
cosine(u, v) == Scale - ((Dot(u, v) * Scale) \div (Norm(u) * Norm(v)))

\* vector_search.py:86  similarity = 1.0 - (distance / 2.0)
Similarity(distance) == Scale - (distance \div 2)

-----------------------------------------------------------------------------
(* initialize_vector_db                                                    *)

\* vector_search.py:42-44  truthiness of profession and user_id
\* Variant: only the profession is tested.
IsValidAlt(user) == user.profession # ""
IsValid(user) == user.profession # "" /\ user.id # ""

\* vector_search.py:41-47  the records collected for embedding, in order
ToEmbed(csv_data) == SelectSeq(csv_data, IsValid)

\* vector_search.py:54-56  the zip loop: d[user_id] = value, record by record
RECURSIVE StoreAll(_, _, _)
StoreAll(d, user_ids, values) ==
    IF user_ids = << >> THEN d
    ELSE StoreAll(DictSet(d, Head(user_ids), Head(values)), Tail(user_ids), Tail(values))

\* vector_search.py:32-34  "Clear existing data"
\* Variant: the dict is left as it is.
ClearedAlt(d) == d
Cleared(d) == << >>

NoCall == [op |-> "none", csv_data |-> << >>, query |-> "", limit |-> 0,
           start_date |-> None, end_date |-> None, profession |-> None,
           csv_path |-> None]

\* A call's outcome; search_results is the ranked list an endpoint fetched
\* (main.py:85), empty for every other call.
Returned(value) == [status |-> "ok", value |-> value, search_results |-> << >>]
Raised(error) == [status |-> error, value |-> << >>, search_results |-> << >>]

\* A thread that rebuilds or clears the store: the statement it is at, the
\* records it collected (vector_search.py:41-47), its place in the zip loop,
\* and the user_ids the store held when it began.
WriterIdle == [pc |-> "idle", users |-> << >>, i |-> 0, old_ids |-> {}]

\* A thread that searches: the statement it is at, its arguments, the dict
\* iterator (length seen when it was created, position, item in hand), the
\* tuples collected so far, the outcome of its last call, whether a writer
\* ran during that call, and the complete contents the store had during it.
ReaderIdle == [pc |-> "idle", query |-> "", limit |-> 0, size |-> 0, i |-> 0,
               item |-> [key |-> "", value |-> <<0, 0>>], similarities |-> << >>,
               result |-> Raised("none"), overlapped |-> FALSE, complete |-> {}]

NoThreads == [writer |-> WriterIdle, reader |-> ReaderIdle]

\* vector_search.py:26-56  what the call does to the module's globals
InitializeStore(csv_data) ==
    LET users == ToEmbed(csv_data)
        user_ids == [i \in DOMAIN users |-> users[i].id]
        profession_texts == [i \in DOMAIN users |-> users[i].profession]
        embeddings == encode(profession_texts)
    IN  /\ _model' = Some(ModelName)
        /\ _embeddings' = StoreAll(Cleared(_embeddings), user_ids, embeddings)
        /\ _professions' = StoreAll(Cleared(_professions), user_ids, profession_texts)
        /\ last_mutator' = "initialize_vector_db"
        /\ prior_ids' = {_professions[i].key : i \in DOMAIN _professions}

initialize_vector_db(csv_data) ==
    /\ InitializeStore(csv_data)
    /\ call' = [NoCall EXCEPT !.op = "initialize_vector_db", !.csv_data = csv_data]
    /\ ret' = Returned(<< >>)
    /\ UNCHANGED <<_cached_data, csv_file, threads>>

-----------------------------------------------------------------------------
(* search_similar_professions                                              *)

\* list.sort(key=score, reverse=True): stable, descending.  Insert places x
\* behind every element whose score is at least x's.
\* Variant: x goes in front of the elements that tie with it.
RECURSIVE InsertAlt(_, _)
InsertAlt(sorted, x) ==
    IF sorted = << >> THEN <<x>>
    ELSE IF Head(sorted).score > x.score
         THEN <<Head(sorted)>> \o InsertAlt(Tail(sorted), x)
         ELSE <<x>> \o sorted

RECURSIVE Insert(_, _)
Insert(sorted, x) ==
    IF sorted = << >> THEN <<x>>
    ELSE IF Head(sorted).score >= x.score
         THEN <<Head(sorted)>> \o Insert(Tail(sorted), x)
         ELSE <<x>> \o sorted

RECURSIVE SortDescending(_)
SortDescending(s) ==
    IF s = << >> THEN << >>
    ELSE Insert(SortDescending(SubSeq(s, 1, Len(s) - 1)), s[Len(s)])

\* vector_search.py:80-87  one scored tuple per stored embedding, in dict order
Similarities(query_embedding, embeddings, professions) ==
    [i \in DOMAIN embeddings |->
        [id |-> embeddings[i].key,
         score |-> Similarity(cosine(query_embedding, embeddings[i].value)),
         text |-> DictGet(professions, embeddings[i].key)]]

\* vector_search.py:91  similarities[:limit]
\* Variant: the whole list is returned.
TopAlt(similarities, limit) == similarities
Top(similarities, limit) == Slice(similarities, limit)

\* vector_search.py:73  the not-initialized test
\* Variant: only the model is tested.
NotInitializedAlt(model, embeddings) == model = None
NotInitialized(model, embeddings) == model = None \/ embeddings = << >>

\* The value search_similar_professions returns or the error it raises.
SearchOutcome(model, embeddings, professions, query_profession, limit) ==
    IF NotInitialized(model, embeddings)
    THEN Raised("RuntimeError")
    ELSE LET query_embedding == encode(<<query_profession>>)[1]
         IN  Returned(Top(SortDescending(
                 Similarities(query_embedding, embeddings, professions)), limit))

\* Variant: the entries the search returns are taken out of the store.
search_similar_professionsAlt(query_profession, limit) ==
    LET found == SearchOutcome(_model, _embeddings, _professions, query_profession, limit)
        Kept(item) == \A i \in DOMAIN found.value : found.value[i].id # item.key
    IN  /\ call' = [NoCall EXCEPT !.op = "search_similar_professions",
                                  !.query = query_profession, !.limit = limit]
        /\ ret' = found
        /\ _embeddings' = SelectSeq(_embeddings, Kept)
        /\ _professions' = SelectSeq(_professions, Kept)
        /\ UNCHANGED <<_model, _cached_data, csv_file, last_mutator, prior_ids, threads>>

search_similar_professions(query_profession, limit) ==
    /\ call' = [NoCall EXCEPT !.op = "search_similar_professions",
                              !.query = query_profession, !.limit = limit]
    /\ ret' = SearchOutcome(_model, _embeddings, _professions, query_profession, limit)
    /\ UNCHANGED <<_model, _embeddings, _professions, _cached_data, csv_file,
                   last_mutator, prior_ids, threads>>

-----------------------------------------------------------------------------
(* close_connection                                                        *)

\* Variant: only the embeddings are cleared.
close_connectionAlt ==
    /\ _embeddings' = Cleared(_embeddings)
    /\ call' = [NoCall EXCEPT !.op = "close_connection"]
    /\ ret' = Returned(<< >>)
    /\ last_mutator' = "close_connection"
    /\ prior_ids' = {_professions[i].key : i \in DOMAIN _professions}
    /\ UNCHANGED <<_model, _professions, _cached_data, csv_file, threads>>

close_connection ==
    /\ _embeddings' = Cleared(_embeddings)
    /\ _professions' = Cleared(_professions)
    /\ call' = [NoCall EXCEPT !.op = "close_connection"]
    /\ ret' = Returned(<< >>)
    /\ last_mutator' = "close_connection"
    /\ prior_ids' = {_professions[i].key : i \in DOMAIN _professions}
    /\ UNCHANGED <<_model, _cached_data, csv_file, threads>>

-----------------------------------------------------------------------------
(* The vector store driven directly: any sequence of the three calls.      *)

Ids == {"", "1", "2"}
Professions == {"", "Doctor", "Physician"}
Queries == {"doctor", "engineer"}

Records == [id : Ids, profession : Professions, created_date : {None}]

Init ==
    /\ _model = None
    /\ _embeddings = << >>
    /\ _professions = << >>
    /\ _cached_data = None
    /\ csv_file = << >>
    /\ call = NoCall
    /\ ret = Returned(<< >>)
    /\ last_mutator = "none"
    /\ prior_ids = {}
    /\ threads = NoThreads

Initialize == \E csv_data \in SeqsUpTo(Records, MaxRecords) : initialize_vector_db(csv_data)

Search == \E q \in Queries, limit \in 1..MaxLimit : search_similar_professions(q, limit)

Close == close_connection

Next == Initialize \/ Search \/ Close

Spec == Init /\ [][Next]_vars

-----------------------------------------------------------------------------
(* Dates.  A datetime.date is <<year, month, day>>; the strings below are  *)
(* the ISO dates the model uses, every other string fails to parse.        *)

DateTable ==
    [s \in {"2023-01-15", "2023-06-20"} |->
        CASE s = "2023-01-15" -> <<2023, 1, 15>>
          [] s = "2023-06-20" -> <<2023, 6, 20>>]

\* datetime.strptime(s, '%Y-%m-%d') / date.fromisoformat(s) succeed on s
IsIsoDate(s) == s \in DOMAIN DateTable

fromisoformat(s) == DateTable[s]

isoformat(d) == CHOOSE s \in DOMAIN DateTable : DateTable[s] = d

\* date.__lt__
DateLess(a, b) ==
    \/ a[1] < b[1]
    \/ a[1] = b[1] /\ a[2] < b[2]
    \/ a[1] = b[1] /\ a[2] = b[2] /\ a[3] < b[3]

-----------------------------------------------------------------------------
(* csv_reader.load_users                                                   *)
(* A row keeps the columns the endpoints read: id, profession and          *)
(* created_date.  A parsed row holds a date, or << >> where the column is  *)
(* the empty string (which the reader leaves as it is, and which is falsy).*)

\* csv_reader.py:51-55  created_date string -> date
ParseRow(row) ==
    [row EXCEPT !.created_date =
        IF row.created_date # "" THEN fromisoformat(row.created_date) ELSE << >>]

RowParses(row) == row.created_date = "" \/ IsIsoDate(row.created_date)

\* csv_reader.py:30-71  the list load_users returns, or the error it raises
LoadOutcome(cached_data, file) ==
    IF cached_data # None THEN Returned(cached_data[1])
    ELSE IF \E i \in DOMAIN file : ~RowParses(file[i]) THEN Raised("ValueError")
    ELSE Returned([i \in DOMAIN file |-> ParseRow(file[i])])

\* csv_reader.py:33-34, 67  the cache after the call
CacheAfterLoad(cached_data, file) ==
    IF LoadOutcome(cached_data, file).status = "ok"
    THEN Some(LoadOutcome(cached_data, file).value)
    ELSE cached_data

\* csv_reader.py:91-94
clear_cache ==
    /\ _cached_data' = None
    /\ call' = [NoCall EXCEPT !.op = "clear_cache"]
    /\ ret' = Returned(<< >>)
    /\ UNCHANGED <<_model, _embeddings, _professions, csv_file, last_mutator, prior_ids, threads>>

-----------------------------------------------------------------------------
(* main.startup_event                                                      *)

\* main.py:27-32  users = load_users(); initialize_vector_db(users)
\* The hook runs once, when the application starts: the model is not loaded yet.
startup_event ==
    LET loaded == LoadOutcome(_cached_data, csv_file)
    IN  /\ _model = None
        /\ loaded.status = "ok"
        /\ _cached_data' = CacheAfterLoad(_cached_data, csv_file)
        /\ InitializeStore(loaded.value)
        /\ call' = [NoCall EXCEPT !.op = "startup_event"]
        /\ ret' = Returned(<< >>)
        /\ UNCHANGED <<csv_file, threads>>

-----------------------------------------------------------------------------
(* main.search_users_by_profession: GET /users/search                      *)

\* round(similarity_score, 4) on a score counted in 1/Scale: to the nearest
\* RoundUnit, a tie going to the even multiple.
RoundUnit == 100

Round4(score) ==
    LET q == score \div RoundUnit
        r == score % RoundUnit
    IN  IF 2 * r < RoundUnit THEN q * RoundUnit
        ELSE IF 2 * r > RoundUnit THEN (q + 1) * RoundUnit
        ELSE IF q % 2 = 0 THEN q * RoundUnit ELSE (q + 1) * RoundUnit

\* main.py:91  user_dict = {user['id']: user for user in users}
UserDict(users) == StoreAll(<< >>, [i \in DOMAIN users |-> users[i].id], users)

\* main.py:99-106  the two date tests; a bound is None or a date
\* Variant: a user without a created_date fails every bound.
PassesDatesAlt(user, start_date_obj, end_date_obj) ==
    /\ ~(start_date_obj # None
            /\ (user.created_date = << >> \/ DateLess(user.created_date, start_date_obj[1])))
    /\ ~(end_date_obj # None
            /\ (user.created_date = << >> \/ DateLess(end_date_obj[1], user.created_date)))

PassesDates(user, start_date_obj, end_date_obj) ==
    /\ ~(start_date_obj # None /\ user.created_date # << >>
            /\ DateLess(user.created_date, start_date_obj[1]))
    /\ ~(end_date_obj # None /\ user.created_date # << >>
            /\ DateLess(end_date_obj[1], user.created_date))

\* main.py:97, 108-112  the copy put into the response
ResponseUser(user, similarity_score) ==
    [id |-> user.id,
     profession |-> user.profession,
     created_date |-> IF user.created_date # << >> THEN isoformat(user.created_date) ELSE "",
     similarity_score |-> Round4(similarity_score)]

\* main.py:113  results.append(user)
\* Variant: the user is put in front.
AppendResultAlt(results, user) == <<user>> \o results
AppendResult(results, user) == Append(results, user)

\* main.py:94-118  the loop over the ranked tuples, with its break
RECURSIVE BuildResults(_, _, _, _, _, _)
BuildResults(ranked, user_dict, start_date_obj, end_date_obj, limit, results) ==
    IF ranked = << >> THEN results
    ELSE LET entry == Head(ranked)
         IN  IF ~DictHas(user_dict, entry.id)
                \/ ~PassesDates(DictGet(user_dict, entry.id), start_date_obj, end_date_obj)
             THEN BuildResults(Tail(ranked), user_dict, start_date_obj, end_date_obj,
                               limit, results)
             ELSE LET grown == AppendResult(results,
                                   ResponseUser(DictGet(user_dict, entry.id), entry.score))
                  IN  IF Len(grown) >= limit THEN grown
                      ELSE BuildResults(Tail(ranked), user_dict, start_date_obj,
                                        end_date_obj, limit, grown)

\* main.py:71-81  a date parameter: None when absent or empty, else parsed
DateParam(text) == IF text = None \/ text[1] = "" THEN None ELSE Some(fromisoformat(text[1]))

DateParamFails(text) == text # None /\ text[1] # "" /\ ~IsIsoDate(text[1])

\* An HTTP response: status code, JSON body, and the ranked list fetched.
Response(status, body, ranked) == [status |-> status, value |-> body, search_results |-> ranked]

\* main.py:86-87  except RuntimeError: raise HTTPException(status_code=500)
\* Variant: the error is swallowed and an empty list is returned.
SearchFailedAlt(error) == Response(200, << >>, << >>)
SearchFailed(error) == Response(500, << >>, << >>)

\* The handler runs with 1 <= limit <= 100: the framework rejects any other
\* limit (main.py:51) before the handler is entered.
search_users_by_profession(profession, limit, start_date, end_date) ==
    LET found == SearchOutcome(_model, _embeddings, _professions, profession, limit * 2)
        loaded == LoadOutcome(_cached_data, csv_file)
    IN  /\ call' = [NoCall EXCEPT !.op = "GET /users/search", !.query = profession,
                                  !.limit = limit, !.start_date = start_date,
                                  !.end_date = end_date]
        /\ UNCHANGED <<_model, _embeddings, _professions, csv_file, last_mutator, prior_ids, threads>>
        /\ IF DateParamFails(start_date) \/ DateParamFails(end_date)
           THEN /\ ret' = Response(400, << >>, << >>)
                /\ UNCHANGED _cached_data
           ELSE IF found.status # "ok"
           THEN /\ ret' = SearchFailed(found.status)
                /\ UNCHANGED _cached_data
           ELSE IF loaded.status # "ok"
           THEN /\ ret' = Response(500, << >>, found.value)
                /\ UNCHANGED _cached_data
           ELSE /\ _cached_data' = CacheAfterLoad(_cached_data, csv_file)
                /\ ret' = Response(200,
                       BuildResults(found.value, UserDict(loaded.value),
                                    DateParam(start_date), DateParam(end_date),
                                    limit, << >>),
                       found.value)

-----------------------------------------------------------------------------
(* The served application: a users.csv on disk, the startup hook, search   *)
(* requests, and the two reset calls the tests use.                        *)

SampleRows ==
    { [id |-> "1", profession |-> "Doctor", created_date |-> "2023-01-15"],
      [id |-> "2", profession |-> "Physician", created_date |-> "2023-06-20"],
      [id |-> "3", profession |-> "Software Engineer", created_date |-> ""] }

SearchTexts == {"doctor", "programmer"}
StartDates == {None, Some("2023-06-20"), Some("invalid-date")}
EndDates == {None, Some("2023-01-15")}

InitApi ==
    /\ _model = None
    /\ _embeddings = << >>
    /\ _professions = << >>
    /\ _cached_data = None
    /\ csv_file \in SeqsUpTo(SampleRows, MaxUsers)
    /\ call = NoCall
    /\ ret = Returned(<< >>)
    /\ last_mutator = "none"
    /\ prior_ids = {}
    /\ threads = NoThreads

Startup == startup_event

GetUsersSearch ==
    \E profession \in SearchTexts, limit \in 1..MaxPageLimit,
       start_date \in StartDates, end_date \in EndDates :
        search_users_by_profession(profession, limit, start_date, end_date)

ClearCache == clear_cache

NextApi == Startup \/ GetUsersSearch \/ Close \/ ClearCache

SpecApi == InitApi /\ [][NextApi]_vars

-----------------------------------------------------------------------------
(* main.get_users: GET /users                                              *)

\* str.lower() on the profession strings of the model.
LowerTable ==
    [s \in {"", "Doctor", "doctor", "Physician", "PHYSICIAN", "Software Engineer"} |->
        CASE s = "" -> ""
          [] s = "Doctor" -> "doctor"
          [] s = "doctor" -> "doctor"
          [] s = "Physician" -> "physician"
          [] s = "PHYSICIAN" -> "physician"
          [] s = "Software Engineer" -> "software engineer"]

Lower(s) == LowerTable[s]

\* main.py:195-197  the profession test; an absent or empty parameter is falsy
\* Variant: the strings are compared as they are.
PassesProfessionAlt(user, profession) ==
    ~(profession # None /\ profession[1] # "" /\ user.profession # profession[1])

PassesProfession(user, profession) ==
    ~(profession # None /\ profession[1] # ""
        /\ Lower(user.profession) # Lower(profession[1]))

\* main.py:184-199  the filtering loop
FilteredUsers(users, start_date_obj, end_date_obj, profession) ==
    LET Kept(user) == /\ PassesDates(user, start_date_obj, end_date_obj)
                      /\ PassesProfession(user, profession)
    IN  SelectSeq(users, Kept)

\* main.py:202-207  the copy put into the response
ListedUser(user) ==
    [id |-> user.id,
     profession |-> user.profession,
     created_date |-> IF user.created_date # << >> THEN isoformat(user.created_date) ELSE ""]

\* main.py:147-209  load_users() runs first, then the date parameters are parsed
get_users(start_date, end_date, profession) ==
    LET loaded == LoadOutcome(_cached_data, csv_file)
    IN  /\ call' = [NoCall EXCEPT !.op = "GET /users", !.start_date = start_date,
                                  !.end_date = end_date, !.profession = profession]
        /\ _cached_data' = CacheAfterLoad(_cached_data, csv_file)
        /\ UNCHANGED <<_model, _embeddings, _professions, csv_file, last_mutator, prior_ids, threads>>
        /\ ret' = IF loaded.status # "ok" THEN Response(500, << >>, << >>)
                  ELSE IF DateParamFails(start_date) \/ DateParamFails(end_date)
                  THEN Response(400, << >>, << >>)
                  ELSE LET filtered == FilteredUsers(loaded.value, DateParam(start_date),
                                                     DateParam(end_date), profession)
                       IN  Response(200, [i \in DOMAIN filtered |-> ListedUser(filtered[i])],
                                    << >>)

-----------------------------------------------------------------------------
(* The listing endpoint over a users.csv on disk.                          *)

ProfessionFilters == {None, Some(""), Some("doctor"), Some("PHYSICIAN")}

GetUsers ==
    \E start_date \in StartDates, end_date \in EndDates, profession \in ProfessionFilters :
        get_users(start_date, end_date, profession)

NextUsers == GetUsers \/ ClearCache

SpecUsers == InitApi /\ [][NextUsers]_vars

-----------------------------------------------------------------------------
(* csv_reader.load_users called directly, with a csv_path.                 *)
(* The file system holds the default users.csv (csv_file) and one other    *)
(* CSV file; every other path names no file.                               *)

OtherPath == "other.csv"
MissingPath == "/nonexistent/file.csv"

OtherFile == << [id |-> "4", profession |-> "Software Developer", created_date |-> "2023-06-20"] >>

\* csv_reader.py:36-43  csv_path.exists(), None standing for the default path
PathExists(csv_path) == csv_path = None \/ csv_path[1] = OtherPath

\* the rows open(csv_path) reads
RowsAt(csv_path, file) == IF csv_path = None THEN file ELSE OtherFile

\* csv_reader.py:30-71  load_users(csv_path): the list returned or the error raised
\* Variant: the cache is not consulted, the file is read on every call.
LoadFromAlt(cached_data, csv_path, file) ==
    IF ~PathExists(csv_path) THEN Raised("FileNotFoundError")
    ELSE LoadOutcome(None, RowsAt(csv_path, file))

LoadFrom(cached_data, csv_path, file) ==
    IF cached_data # None THEN Returned(cached_data[1])
    ELSE IF ~PathExists(csv_path) THEN Raised("FileNotFoundError")
    ELSE LoadOutcome(None, RowsAt(csv_path, file))

load_users(csv_path) ==
    LET loaded == LoadFrom(_cached_data, csv_path, csv_file)
    IN  /\ call' = [NoCall EXCEPT !.op = "load_users", !.csv_path = csv_path]
        /\ ret' = loaded
        /\ _cached_data' = IF loaded.status = "ok" THEN Some(loaded.value) ELSE _cached_data
        /\ UNCHANGED <<_model, _embeddings, _professions, csv_file, last_mutator, prior_ids, threads>>

\* users.csv rows, one of them with a created_date strptime rejects
CsvRows ==
    SampleRows \cup { [id |-> "5", profession |-> "Doctor", created_date |-> "invalid-date"] }

CsvPaths == {None, Some(OtherPath), Some(MissingPath)}

InitCsv ==
    /\ _model = None
    /\ _embeddings = << >>
    /\ _professions = << >>
    /\ _cached_data = None
    /\ csv_file \in SeqsUpTo(CsvRows, MaxUsers)
    /\ call = NoCall
    /\ ret = Returned(<< >>)
    /\ last_mutator = "none"
    /\ prior_ids = {}
    /\ threads = NoThreads

LoadUsers == \E csv_path \in CsvPaths : load_users(csv_path)

NextCsv == LoadUsers \/ ClearCache

SpecCsv == InitCsv /\ [][NextCsv]_vars

-----------------------------------------------------------------------------
(* The vector store used by two threads: one calls initialize_vector_db    *)
(* and close_connection, the other search_similar_professions.  The module *)
(* takes no lock, so the statements of the two calls interleave; one       *)
(* action is one statement on the shared dicts.                            *)

MaxRebuild == 2     \* longest csv_data sequence passed by the writer thread

RebuildRecords ==
    { [id |-> "1", profession |-> "Doctor", created_date |-> None],
      [id |-> "2", profession |-> "Physician", created_date |-> None] }

IdsOf(users) == {users[i].id : i \in DOMAIN users}

\* A writer statement runs: a search in progress has been overlapped; a call
\* that begins adds the contents it will leave to those of that search.
Overlap(reader, begun, new_ids) ==
    IF reader.pc = "idle" THEN reader
    ELSE [reader EXCEPT !.overlapped = TRUE,
                        !.complete = IF begun THEN @ \cup {new_ids} ELSE @]

\* vector_search.py:26-30  the call begins and loads the model
begin_initialize(csv_data) ==
    /\ threads.writer.pc = "idle"
    /\ _model' = Some(ModelName)
    /\ threads' = [writer |-> [pc |-> "l33", users |-> ToEmbed(csv_data), i |-> 0,
                               old_ids |-> {_embeddings[k].key : k \in DOMAIN _embeddings}],
                   reader |-> Overlap(threads.reader, TRUE, IdsOf(ToEmbed(csv_data)))]
    /\ UNCHANGED <<_embeddings, _professions,
                   _cached_data, csv_file, call, ret, last_mutator, prior_ids>>

\* vector_search.py:94-96  close_connection begins
begin_close ==
    /\ threads.writer.pc = "idle"
    /\ threads' = [writer |-> [pc |-> "l97", users |-> << >>, i |-> 0,
                               old_ids |-> {_embeddings[k].key : k \in DOMAIN _embeddings}],
                   reader |-> Overlap(threads.reader, TRUE, {})]
    /\ UNCHANGED <<_model, _embeddings, _professions,
                   _cached_data, csv_file, call, ret, last_mutator, prior_ids>>

\* vector_search.py:33, 97  _embeddings.clear()
clear_embeddings ==
    /\ threads.writer.pc \in {"l33", "l97"}
    /\ _embeddings' = Cleared(_embeddings)
    /\ threads' = [writer |-> [threads.writer EXCEPT
                                  !.pc = IF @ = "l33" THEN "l34" ELSE "l98"],
                   reader |-> Overlap(threads.reader, FALSE, {})]
    /\ UNCHANGED <<_model, _professions,
                   _cached_data, csv_file, call, ret, last_mutator, prior_ids>>

\* vector_search.py:34, 98  _professions.clear(); initialize_vector_db goes
\* on to collect and encode the records (lines 37-51, local to the call)
clear_professions ==
    /\ threads.writer.pc \in {"l34", "l98"}
    /\ _professions' = Cleared(_professions)
    /\ threads' = [writer |-> IF threads.writer.pc = "l34" /\ threads.writer.users # << >>
                              THEN [threads.writer EXCEPT !.pc = "l55", !.i = 1]
                              ELSE WriterIdle,
                   reader |-> Overlap(threads.reader, FALSE, {})]
    /\ UNCHANGED <<_model, _embeddings,
                   _cached_data, csv_file, call, ret, last_mutator, prior_ids>>

\* vector_search.py:55  _embeddings[user_id] = embedding
store_embedding ==
    /\ threads.writer.pc = "l55"
    /\ LET user == threads.writer.users[threads.writer.i]
       IN  _embeddings' = DictSet(_embeddings, user.id, EncodeTable[user.profession])
    /\ threads' = [writer |-> [threads.writer EXCEPT !.pc = "l56"],
                   reader |-> Overlap(threads.reader, FALSE, {})]
    /\ UNCHANGED <<_model, _professions,
                   _cached_data, csv_file, call, ret, last_mutator, prior_ids>>

\* vector_search.py:54, 56  _professions[user_id] = profession, then the next
\* record of the zip or the end of the call
store_profession ==
    /\ threads.writer.pc = "l56"
    /\ LET user == threads.writer.users[threads.writer.i]
       IN  _professions' = DictSet(_professions, user.id, user.profession)
    /\ threads' = [writer |-> IF threads.writer.i = Len(threads.writer.users)
                              THEN WriterIdle
                              ELSE [threads.writer EXCEPT !.pc = "l55", !.i = @ + 1],
                   reader |-> Overlap(threads.reader, FALSE, {})]
    /\ UNCHANGED <<_model, _embeddings,
                   _cached_data, csv_file, call, ret, last_mutator, prior_ids>>

\* vector_search.py:73-80  the not-initialized test, the query embedding
\* (local to the call) and the creation of the iterator over _embeddings
begin_search(query_profession, limit) ==
    /\ threads.reader.pc = "idle"
    /\ LET writing == threads.writer.pc # "idle"
           complete == IF writing
                       THEN {threads.writer.old_ids, IdsOf(threads.writer.users)}
                       ELSE {{_embeddings[k].key : k \in DOMAIN _embeddings}}
           begun == [ReaderIdle EXCEPT !.query = query_profession, !.limit = limit,
                                       !.overlapped = writing, !.complete = complete]
       IN  threads' = [threads EXCEPT !.reader =
               IF NotInitialized(_model, _embeddings)
               THEN [begun EXCEPT !.result = Raised("RuntimeError")]
               ELSE [begun EXCEPT !.pc = "l81", !.size = Len(_embeddings)]]
    /\ UNCHANGED <<_model, _embeddings, _professions,
                   _cached_data, csv_file, call, ret, last_mutator, prior_ids>>

DictChangedSize == "RuntimeError: dictionary changed size during iteration"

\* vector_search.py:81  the iterator's next item: it raises when the dict's
\* length differs from the one it saw when created, and reads the dict at
\* its position otherwise; when exhausted, lines 90-91 sort and slice.
\* Variant: the loop ends before the last item.
next_itemAlt ==
    /\ threads.reader.pc = "l81"
    /\ LET reader == threads.reader
       IN  threads' = [threads EXCEPT !.reader =
               IF Len(_embeddings) # reader.size
               THEN [reader EXCEPT !.pc = "idle", !.result = Raised(DictChangedSize)]
               ELSE IF reader.i + 1 >= Len(_embeddings)
               THEN [reader EXCEPT !.pc = "idle",
                                   !.result = Returned(Top(SortDescending(reader.similarities),
                                                           reader.limit))]
               ELSE [reader EXCEPT !.pc = "l87", !.i = @ + 1,
                                   !.item = _embeddings[reader.i + 1]]]
    /\ UNCHANGED <<_model, _embeddings, _professions,
                   _cached_data, csv_file, call, ret, last_mutator, prior_ids>>

next_item ==
    /\ threads.reader.pc = "l81"
    /\ LET reader == threads.reader
       IN  threads' = [threads EXCEPT !.reader =
               IF Len(_embeddings) # reader.size
               THEN [reader EXCEPT !.pc = "idle", !.result = Raised(DictChangedSize)]
               ELSE IF reader.i = Len(_embeddings)
               THEN [reader EXCEPT !.pc = "idle",
                                   !.result = Returned(Top(SortDescending(reader.similarities),
                                                           reader.limit))]
               ELSE [reader EXCEPT !.pc = "l87", !.i = @ + 1,
                                   !.item = _embeddings[reader.i + 1]]]
    /\ UNCHANGED <<_model, _embeddings, _professions,
                   _cached_data, csv_file, call, ret, last_mutator, prior_ids>>

\* vector_search.py:82-87  the score of the item in hand and the lookup
\* _professions[user_id], which raises KeyError when the key is absent
score_item ==
    /\ threads.reader.pc = "l87"
    /\ LET reader == threads.reader
           query_embedding == encode(<<reader.query>>)[1]
       IN  threads' = [threads EXCEPT !.reader =
               IF ~DictHas(_professions, reader.item.key)
               THEN [reader EXCEPT !.pc = "idle", !.result = Raised("KeyError")]
               ELSE [reader EXCEPT !.pc = "l81",
                        !.similarities = Append(@,
                            [id |-> reader.item.key,
                             score |-> Similarity(cosine(query_embedding, reader.item.value)),
                             text |-> DictGet(_professions, reader.item.key)])]]
    /\ UNCHANGED <<_model, _embeddings, _professions,
                   _cached_data, csv_file, call, ret, last_mutator, prior_ids>>

BeginInitialize ==
    \E csv_data \in SeqsUpTo(RebuildRecords, MaxRebuild) : begin_initialize(csv_data)

\* The searching thread always asks for more entries than a rebuild stores.
BeginSearch == begin_search("doctor", MaxRebuild + 1)

NextThreads ==
    \/ BeginInitialize
    \/ begin_close
    \/ clear_embeddings
    \/ clear_professions
    \/ store_embedding
    \/ store_profession
    \/ BeginSearch
    \/ next_item
    \/ score_item

SpecThreads == Init /\ [][NextThreads]_vars

-----------------------------------------------------------------------------
(* Shorthands for the properties.                                          *)

IsSearch == call.op = "search_similar_professions"
IsInitialize == call.op = "initialize_vector_db"
IsClose == call.op = "close_connection"

StoreEmpty == _embeddings = << >> /\ _professions = << >>

\* Position of a user_id in the store's iteration order.
Position(user_id) == CHOOSE i \in DOMAIN _embeddings : _embeddings[i].key = user_id

ValidIds(csv_data) == {csv_data[j].id : j \in {k \in DOMAIN csv_data : IsValid(csv_data[k])}}

Values(d) == {d[i].value : i \in DOMAIN d}
Keys(d) == {d[i].key : i \in DOMAIN d}

-----------------------------------------------------------------------------
(* C1: on a non-empty store a search with a positive limit does not raise  *)
(* and returns exactly min(limit, n) results, n the number of stored       *)
(* entries, each with a score between 0 and 1.                             *)
C1_ResultCountAndRange ==
    (IsSearch /\ _embeddings # << >>) =>
        /\ ret.status = "ok"
        /\ Len(ret.value) = Min(call.limit, Len(_embeddings))
        /\ \A i \in DOMAIN ret.value :
              ret.value[i].score >= 0 /\ ret.value[i].score <= Scale

\* A search asked for more than the store holds and got all of it; the
\* store holds more than one entry, so a smaller limit truncates as well.
C1_Witness ==
    /\ IsSearch
    /\ Len(_embeddings) = 2
    /\ call.limit > 2
    /\ ret.status = "ok"
    /\ Len(ret.value) = 2

(* C2: the returned sequence is non-increasing by score, and entries with  *)
(* equal scores keep the store's insertion order.                          *)
C2_SortedStable ==
    (IsSearch /\ ret.status = "ok") =>
        \A i, j \in DOMAIN ret.value :
            i < j =>
                /\ ret.value[i].score >= ret.value[j].score
                /\ ret.value[i].score = ret.value[j].score =>
                      Position(ret.value[i].id) < Position(ret.value[j].id)

\* Two results tie on score, and a search whose best match was stored last.
C2_Witness ==
    /\ IsSearch
    /\ ret.status = "ok"
    /\ Len(ret.value) = 2
    /\ ret.value[1].score = ret.value[2].score

C2_WitnessReordered ==
    /\ IsSearch
    /\ ret.status = "ok"
    /\ Len(ret.value) = 2
    /\ ret.value[1].score > ret.value[2].score
    /\ Position(ret.value[1].id) > Position(ret.value[2].id)

(* C3: a search raises the not-initialized error exactly when the store    *)
(* holds no embedding or the model has not been loaded.                    *)
C3_RaisesIffNotInitialized ==
    IsSearch =>
        /\ ret.status \in {"ok", "RuntimeError"}
        /\ ret.status = "RuntimeError" <=> (_embeddings = << >> \/ _model = None)

\* The model is loaded, the store was emptied, and the search raised.
C3_Witness ==
    /\ IsSearch
    /\ _model # None
    /\ _embeddings = << >>
    /\ ret.status = "RuntimeError"

(* C4: initialize_vector_db with no record, or only records with an empty  *)
(* id or an empty profession, returns normally and leaves the store empty; *)
(* a search issued after it raises the not-initialized error.              *)
C4_EmptyInitialize ==
    /\ (IsInitialize /\ \A j \in DOMAIN call.csv_data :
                            call.csv_data[j].id = "" \/ call.csv_data[j].profession = "") =>
           ret.status = "ok" /\ StoreEmpty
    /\ (IsSearch /\ last_mutator = "initialize_vector_db" /\ StoreEmpty) =>
           ret.status = "RuntimeError"

\* A populated store was re-initialized from records that are all invalid.
C4_Witness ==
    /\ IsInitialize
    /\ call.csv_data # << >>
    /\ \A j \in DOMAIN call.csv_data :
          call.csv_data[j].id = "" \/ call.csv_data[j].profession = ""
    /\ prior_ids # {}
    /\ StoreEmpty

C4_WitnessSearch ==
    /\ IsSearch
    /\ last_mutator = "initialize_vector_db"
    /\ prior_ids # {}
    /\ ret.status = "RuntimeError"

(* C5: close_connection empties the store; every search raises the         *)
(* not-initialized error while close_connection is the latest call that    *)
(* rewrote the store, and succeeds once an initialize_vector_db has stored *)
(* at least one entry.                                                     *)
C5_CloseThenSearch ==
    /\ IsClose => StoreEmpty
    /\ (IsSearch /\ last_mutator = "close_connection") => ret.status = "RuntimeError"
    /\ (IsSearch /\ last_mutator = "initialize_vector_db" /\ _embeddings # << >>) =>
           ret.status = "ok"

\* A search after close_connection on a store that held entries.
C5_Witness ==
    /\ IsSearch
    /\ last_mutator = "close_connection"
    /\ prior_ids # {}
    /\ ret.status = "RuntimeError"

(* C6: initialize_vector_db replaces the prior contents: the store holds   *)
(* entries for the valid records of its argument and nothing else, and no  *)
(* later search result carries an id only the prior store had, or a text   *)
(* other than the one the new store keeps for its id.                      *)
C6_Replaced ==
    /\ IsInitialize =>
          /\ Keys(_professions) = ValidIds(call.csv_data)
          /\ Keys(_embeddings) = ValidIds(call.csv_data)
          /\ \A i \in DOMAIN _professions :
                \E j \in DOMAIN call.csv_data :
                    /\ call.csv_data[j].id = _professions[i].key
                    /\ call.csv_data[j].profession = _professions[i].value
    /\ (IsSearch /\ last_mutator = "initialize_vector_db") =>
          \A i \in DOMAIN ret.value :
              /\ ~(ret.value[i].id \in prior_ids \ Keys(_professions))
              /\ \E k \in DOMAIN _professions :
                    /\ _professions[k].key = ret.value[i].id
                    /\ _professions[k].value = ret.value[i].text

\* The store held an id that the new record set does not have.
C6_Witness ==
    /\ IsInitialize
    /\ _professions # << >>
    /\ prior_ids \ Keys(_professions) # {}

C6_WitnessSearch ==
    /\ IsSearch
    /\ last_mutator = "initialize_vector_db"
    /\ ret.status = "ok"
    /\ prior_ids \ Keys(_professions) # {}

\* The last record of csv_data that is valid and carries user_id.
LastValid(csv_data, user_id) ==
    CHOOSE j \in DOMAIN csv_data :
        /\ IsValid(csv_data[j]) /\ csv_data[j].id = user_id
        /\ \A k \in DOMAIN csv_data :
              (IsValid(csv_data[k]) /\ csv_data[k].id = user_id) => k <= j

-----------------------------------------------------------------------------
(* GET /users/search                                                       *)

IsGetSearch == call.op = "GET /users/search"

\* Both date parameters are absent, empty or parse.
ValidParameters == ~DateParamFails(call.start_date) /\ ~DateParamFails(call.end_date)

\* A date parameter that puts a bound on the response.
Supplied(text) == text # None /\ text[1] # ""

\* Position of a user_id in the ranked list the endpoint fetched.
Rank(user_id) ==
    CHOOSE k \in DOMAIN ret.search_results : ret.search_results[k].id = user_id

(* C8: with an empty store (never initialized, cleared, or initialized     *)
(* from zero valid records) a GET /users/search with valid parameters is   *)
(* answered 500, never 200 with an empty list.                             *)
C8_EmptyStoreIs500 ==
    (IsGetSearch /\ ValidParameters /\ _embeddings = << >>) => ret.status = 500

\* The store was loaded at startup, then cleared, then searched.
C8_Witness ==
    /\ IsGetSearch
    /\ ValidParameters
    /\ last_mutator = "close_connection"
    /\ prior_ids # {}
    /\ ret.status = 500

C8_WitnessNeverInitialized ==
    IsGetSearch /\ ValidParameters /\ _model = None /\ ret.status = 500

C8_WitnessNoValidRecords ==
    /\ IsGetSearch
    /\ ValidParameters
    /\ last_mutator = "initialize_vector_db"
    /\ _embeddings = << >>
    /\ ret.status = 500

(* C9: the users of a GET /users/search response are an order-preserving   *)
(* subsequence of the ranked list search_similar_professions returned,     *)
(* each with that entry's rounded score, so scores are non-increasing      *)
(* along the response; the response holds at most limit users.             *)
C9_FilteredSubsequence ==
    (IsGetSearch /\ ret.status = 200) =>
        /\ Len(ret.value) <= call.limit
        /\ \A i \in DOMAIN ret.value :
              \E k \in DOMAIN ret.search_results :
                  /\ ret.search_results[k].id = ret.value[i].id
                  /\ ret.value[i].similarity_score = Round4(ret.search_results[k].score)
        /\ \A i, j \in DOMAIN ret.value :
              i < j =>
                  /\ Rank(ret.value[i].id) < Rank(ret.value[j].id)
                  /\ ret.value[i].similarity_score >= ret.value[j].similarity_score

\* Two users are returned and the one ranked between them was filtered out.
C9_Witness ==
    /\ IsGetSearch
    /\ ret.status = 200
    /\ Len(ret.search_results) = 3
    /\ Len(ret.value) = 2
    /\ ret.value[1].id = ret.search_results[1].id
    /\ ret.value[2].id = ret.search_results[3].id
    /\ ret.value[1].similarity_score > ret.value[2].similarity_score

\* More users pass the filters than the limit lets through.
C9_WitnessTruncated ==
    /\ IsGetSearch
    /\ ret.status = 200
    /\ call.limit = 1
    /\ call.start_date = None /\ call.end_date = None
    /\ Len(ret.search_results) = 2
    /\ Len(ret.value) = 1

(* C10: every returned user that has a created_date lies within each       *)
(* supplied bound, start_date <= created_date <= end_date, both inclusive; *)
(* a ranked user without a created_date is left out of the response only   *)
(* when the response is already full, never by a date bound.               *)
C10_DateBounds ==
    (IsGetSearch /\ ret.status = 200) =>
        /\ \A i \in DOMAIN ret.value :
              ret.value[i].created_date # "" =>
                  /\ Supplied(call.start_date) =>
                        ~DateLess(fromisoformat(ret.value[i].created_date),
                                  fromisoformat(call.start_date[1]))
                  /\ Supplied(call.end_date) =>
                        ~DateLess(fromisoformat(call.end_date[1]),
                                  fromisoformat(ret.value[i].created_date))
        /\ \A k \in DOMAIN ret.search_results :
              LET user_dict == UserDict(_cached_data[1])
                  user_id == ret.search_results[k].id
              IN  (DictHas(user_dict, user_id)
                      /\ DictGet(user_dict, user_id).created_date = << >>) =>
                      \/ \E i \in DOMAIN ret.value : ret.value[i].id = user_id
                      \/ Len(ret.value) = call.limit

\* A user created exactly on the start bound is returned while an earlier
\* one is dropped.
C10_Witness ==
    /\ IsGetSearch
    /\ ret.status = 200
    /\ Supplied(call.start_date)
    /\ Len(ret.search_results) = 3
    /\ \E i \in DOMAIN ret.value : ret.value[i].created_date = call.start_date[1]
    /\ \E i \in DOMAIN ret.value : ret.value[i].created_date = ""
    /\ Len(ret.value) = 2

\* Both bounds are supplied and exclude every dated user; the user without
\* a created_date is still returned.
C10_WitnessNoDate ==
    /\ IsGetSearch
    /\ ret.status = 200
    /\ Supplied(call.start_date) /\ Supplied(call.end_date)
    /\ Len(ret.search_results) = 3
    /\ Len(ret.value) = 1
    /\ ret.value[1].created_date = ""

\* A user created exactly on the end bound is returned.
C10_WitnessEndInclusive ==
    /\ IsGetSearch
    /\ ret.status = 200
    /\ Supplied(call.end_date)
    /\ \E i \in DOMAIN ret.value : ret.value[i].created_date = call.end_date[1]
    /\ Len(ret.value) < Len(ret.search_results)
    /\ Len(ret.value) < call.limit

-----------------------------------------------------------------------------
(* GET /users *)

IsGetUsers == call.op = "GET /users"

\* The loaded record list a request worked on.
LoadedUsers == _cached_data[1]

\* C11: a successful GET /users returns, in the order of the loaded records,
\* exactly the users that pass every supplied filter: created_date not before
\* start_date and not after end_date (tested only on users that have a
\* created_date), profession equal to the parameter ignoring letter case;
\* with no filter it returns every loaded user.
C11_ListsExactlyThePassingUsers ==
    (IsGetUsers /\ ret.status = 200) =>
        LET users == LoadedUsers
            Passes(user) ==
                /\ (Supplied(call.start_date) /\ user.created_date # << >>)
                      => ~DateLess(user.created_date, fromisoformat(call.start_date[1]))
                /\ (Supplied(call.end_date) /\ user.created_date # << >>)
                      => ~DateLess(fromisoformat(call.end_date[1]), user.created_date)
                /\ Supplied(call.profession)
                      => Lower(user.profession) = Lower(call.profession[1])
            passing == SelectSeq(users, Passes)
        IN  /\ Len(ret.value) = Len(passing)
            /\ \A i \in DOMAIN passing :
                  /\ ret.value[i].id = passing[i].id
                  /\ ret.value[i].profession = passing[i].profession
                  /\ ret.value[i].created_date =
                        (IF passing[i].created_date = << >> THEN ""
                         ELSE isoformat(passing[i].created_date))
            /\ (~Supplied(call.start_date) /\ ~Supplied(call.end_date)
                  /\ ~Supplied(call.profession)) => Len(ret.value) = Len(users)

\* A request with a date bound and a profession written in another case
\* returns some of the loaded users and leaves others out.
C11_Witness ==
    /\ IsGetUsers /\ ret.status = 200
    /\ Supplied(call.start_date) /\ Supplied(call.profession)
    /\ Len(LoadedUsers) = 3
    /\ Len(ret.value) = 1
    /\ ret.value[1].profession # call.profession[1]

\* A request without filters returns all three loaded users in file order.
C11_WitnessNoFilter ==
    /\ IsGetUsers /\ ret.status = 200
    /\ ~Supplied(call.start_date) /\ ~Supplied(call.end_date) /\ ~Supplied(call.profession)
    /\ Len(ret.value) = 3
    /\ ret.value[1].id # ret.value[2].id

-----------------------------------------------------------------------------
(* load_users *)

IsLoad == call.op = "load_users"

\* The rows of the file a call names parse: the file exists and every
\* created_date is empty or an ISO date.
Readable(csv_path) ==
    /\ PathExists(csv_path)
    /\ \A i \in DOMAIN RowsAt(csv_path, csv_file) :
          RowParses(RowsAt(csv_path, csv_file)[i])

\* C12: once the cache is set, every load_users call, whatever its csv_path,
\* succeeds with the cached list and leaves the cache as it is, and only
\* clear_cache unsets it; a call made with the cache unset reads the named
\* file: it fails and leaves the cache unset when the file is missing or
\* holds an invalid date, and otherwise returns and caches the file's rows.
C12_CachedUntilCleared ==
    [][ /\ (call'.op = "load_users" /\ _cached_data # None) =>
              /\ ret'.status = "ok"
              /\ ret'.value = _cached_data[1]
              /\ _cached_data' = _cached_data
        /\ (_cached_data # None /\ _cached_data' # _cached_data) =>
              /\ call'.op = "clear_cache"
              /\ _cached_data' = None
        /\ (call'.op = "load_users" /\ _cached_data = None) =>
              IF Readable(call'.csv_path)
              THEN /\ ret'.status = "ok"
                   /\ Len(ret'.value) = Len(RowsAt(call'.csv_path, csv_file))
                   /\ \A i \in DOMAIN ret'.value :
                         ret'.value[i].id = RowsAt(call'.csv_path, csv_file)[i].id
                   /\ _cached_data' = Some(ret'.value)
              ELSE /\ ret'.status \in {"FileNotFoundError", "ValueError"}
                   /\ _cached_data' = None
      ]_vars

\* A call naming the other file returned the list cached from users.csv.
C12_Witness ==
    /\ IsLoad /\ ret.status = "ok"
    /\ call.csv_path = Some(OtherPath)
    /\ _cached_data = Some(ret.value)
    /\ Len(ret.value) = 2
    /\ ret.value[1].id # OtherFile[1].id

\* A call naming a missing file returned the cached list.
C12_WitnessMissingPath ==
    /\ IsLoad /\ ret.status = "ok"
    /\ call.csv_path = Some(MissingPath)
    /\ ret.value # << >>

\* A call failed on an invalid date and the cache is unset.
C12_WitnessInvalidDate ==
    IsLoad /\ ret.status = "ValueError" /\ _cached_data = None

\* A call failed on a missing file and the cache is unset.
C12_WitnessFileNotFound ==
    IsLoad /\ ret.status = "FileNotFoundError" /\ _cached_data = None

\* users.csv holds an invalid date, so a call on it fails, and the other
\* file has been read and cached by a later call.
C12_WitnessReadAfterFailure ==
    /\ IsLoad /\ ret.status = "ok"
    /\ ~Readable(None)
    /\ call.csv_path = Some(OtherPath)
    /\ _cached_data = Some(ret.value)

-----------------------------------------------------------------------------
(* initialize_vector_db, close_connection and a search in another thread *)

SearchDone == threads.reader.pc = "idle" /\ threads.reader.result.status # "none"

FoundIds == {threads.reader.result.value[i].id : i \in DOMAIN threads.reader.result.value}

\* The search saw the not-initialized error, or exactly the entries of one
\* of the complete contents the store had while it ran.
SawCompleteStore ==
    \/ threads.reader.result.status = "RuntimeError"
    \/ /\ threads.reader.result.status = "ok"
       /\ FoundIds \in threads.reader.complete
       /\ Len(threads.reader.result.value) = Cardinality(FoundIds)

\* C13 (as stated): a search whose statements interleave with those of an
\* initialize_vector_db or close_connection in progress ends with the
\* complete old contents, the complete new contents or the not-initialized
\* error, never with part of the new record set.
C13_NeverPartial == SearchDone => SawCompleteStore

\* C13 (amended): a search that no statement of initialize_vector_db or
\* close_connection overlaps ends with the complete contents of the store or
\* the not-initialized error; a search that is overlapped ends with that
\* error, with the iterator's size error, with a KeyError, or with entries
\* whose user_ids all belong to contents the store had while it ran.
C13_AtomicWhenNotOverlapped ==
    SearchDone =>
        /\ ~threads.reader.overlapped => SawCompleteStore
        /\ threads.reader.result.status \in {"ok", "RuntimeError", DictChangedSize, "KeyError"}
        /\ threads.reader.result.status = "ok" =>
              FoundIds \subseteq UNION threads.reader.complete

\* A search ran alone on a store of two entries and returned both.
C13_Witness ==
    /\ SearchDone /\ ~threads.reader.overlapped
    /\ threads.reader.result.status = "ok"
    /\ Cardinality(FoundIds) = 2

\* A search overlapped by a rebuild returned one of the two new entries.
C13_WitnessPartial ==
    /\ SearchDone /\ threads.reader.overlapped
    /\ threads.reader.result.status = "ok"
    /\ {"1", "2"} \in threads.reader.complete
    /\ Cardinality(FoundIds) = 1
    /\ FoundIds \notin threads.reader.complete

\* A search overlapped by a rebuild failed on the text lookup.
C13_WitnessKeyError == SearchDone /\ threads.reader.result.status = "KeyError"

\* A search overlapped by a rebuild failed in the dict iterator.
C13_WitnessChangedSize == SearchDone /\ threads.reader.result.status = DictChangedSize

-----------------------------------------------------------------------------
(* search_similar_professions leaves the store alone *)

\* C14: a search, whether it returns or raises, leaves the loaded model, the
\* stored embeddings and the stored profession texts, with their order, as
\* they were; and a search that follows a search with the same query and
\* limit returns the same sequence.
C14_SearchLeavesStore ==
    [][ call'.op = "search_similar_professions" =>
            /\ _model' = _model
            /\ _embeddings' = _embeddings
            /\ _professions' = _professions
            /\ (IsSearch /\ call'.query = call.query /\ call'.limit = call.limit)
                  => ret' = ret
      ]_vars

\* A search returned the best of two stored entries; both are still stored.
C14_Witness ==
    /\ IsSearch /\ ret.status = "ok"
    /\ Len(ret.value) = 1
    /\ Len(_embeddings) = 2 /\ Len(_professions) = 2
    /\ ret.value[1].id = _embeddings[2].key

\* A search raised on a cleared store; the model is still loaded.
C14_WitnessRaised ==
    IsSearch /\ ret.status = "RuntimeError" /\ _model # None /\ last_mutator = "close_connection"

-----------------------------------------------------------------------------
(* The two dicts of the store *)

\* C15: in every state between completed calls of initialize_vector_db,
\* close_connection and search_similar_professions, the embeddings dict and
\* the professions dict have the same keys, in the same order, so every
\* stored embedding has a profession text to look up.
C15_SameKeys ==
    /\ Keys(_embeddings) = Keys(_professions)
    /\ DictKeys(_embeddings) = DictKeys(_professions)
    /\ \A i \in DOMAIN _embeddings : DictHas(_professions, _embeddings[i].key)

\* A search scored two stored entries and found the text of each.
C15_Witness ==
    /\ IsSearch /\ ret.status = "ok"
    /\ Len(ret.value) = 2
    /\ Keys(_embeddings) = {"1", "2"}
    /\ \A i \in DOMAIN ret.value :
          ret.value[i].text = DictGet(_professions, ret.value[i].id)

\* close_connection emptied a store of two entries: both dicts are empty.
C15_WitnessClosed ==
    IsClose /\ Cardinality(prior_ids) = 2 /\ _embeddings = << >> /\ _professions = << >>

-----------------------------------------------------------------------------
(* GET /users/search looks at twice the limit *)

\* Every stored entry, ranked for the request's query.
FullRanking ==
    SearchOutcome(_model, _embeddings, _professions, call.query, Len(_embeddings)).value

\* The ranked entry belongs to a loaded record that passes the request's
\* date bounds.
Eligible(entry) ==
    \E j \in DOMAIN LoadedUsers :
        /\ LoadedUsers[j].id = entry.id
        /\ (Supplied(call.start_date) /\ LoadedUsers[j].created_date # << >>)
              => ~DateLess(LoadedUsers[j].created_date, fromisoformat(call.start_date[1]))
        /\ (Supplied(call.end_date) /\ LoadedUsers[j].created_date # << >>)
              => ~DateLess(fromisoformat(call.end_date[1]), LoadedUsers[j].created_date)

\* C16: a successful GET /users/search with limit L fetches the 2*L
\* highest-ranked store entries and returns exactly the first up-to-L of
\* them that exist in the loaded records and pass the date filters; an entry
\* ranked below position 2*L is never returned.
C16_OnlyTopTwiceLimit ==
    (IsGetSearch /\ ret.status = 200) =>
        LET considered == Slice(FullRanking, 2 * call.limit)
            expected == Slice(SelectSeq(considered, Eligible), call.limit)
        IN  /\ ret.search_results = considered
            /\ Len(ret.value) = Len(expected)
            /\ \A i \in DOMAIN expected :
                  /\ ret.value[i].id = expected[i].id
                  /\ \E k \in 1..(2 * call.limit) :
                        k <= Len(FullRanking) /\ FullRanking[k].id = ret.value[i].id

\* With limit 1 the two best entries fail the date filters and the third
\* stored entry passes them: the response is empty.
C16_Witness ==
    /\ IsGetSearch /\ ret.status = 200
    /\ call.limit = 1
    /\ Len(FullRanking) = 3
    /\ Eligible(FullRanking[3])
    /\ ret.value = << >>

\* With limit 1 the best entry is filtered out and the second is returned.
C16_WitnessSecond ==
    /\ IsGetSearch /\ ret.status = 200
    /\ call.limit = 1
    /\ Len(FullRanking) >= 2
    /\ ~Eligible(FullRanking[1])
    /\ Len(ret.value) = 1
    /\ ret.value[1].id = FullRanking[2].id

====
